---- MODULE Spec2Model ----
(***************************************************************************)
(* A model of optimize_python_files (src/optimize.py): the per-file        *)
(* retry/rollback loop optimize_and_validate, run for every file on a     *)
(* ThreadPoolExecutor, and the as_completed loop of the calling thread.   *)
(*                                                                         *)
(* The external tools are opaque.  A file's content is abstracted to the  *)
(* text it started from plus the set of optimizers whose change it        *)
(* carries; the exit status of a tool or of the test command is an input. *)
(* Files are assumed readable (read_text at line 147 does not raise).     *)
(***************************************************************************)
EXTENDS Integers, Sequences, FiniteSets, TLC

(* ------------------------------ bounds -------------------------------- *)

(* python files of the workspace, and how many of them are submitted *)
MaxFiles == 5
NumFiles == 2
NumPasses == 2
MaxIter == 2

(* ThreadPoolExecutor(max_workers=4) *)
max_workers == 4

AllFiles == 1..MaxFiles
Workers == 1..max_workers
NoFile == 0

VARIABLES
    ignore_failure,            \* parameter of optimize_python_files
    max_iterations,            \* parameter of optimize_python_files
    pool_size,                 \* worker threads of the executor
    num_optimizers,            \* len(optimizers)
    files_to_optimize,         \* the files submitted to the executor
    disk,                      \* on-disk content of every file
    work_queue,                \* the executor's queue of submitted tasks
    holding,                   \* the file each worker thread is running
    pc,                        \* where each file's task is
    original_content,          \* local of optimize_and_validate
    optimizer,                 \* index of the outer loop
    iteration,                 \* index of the inner loop
    validation_successful,     \* local of optimize_and_validate
    successful_optimizations,  \* local of optimize_and_validate
    exception,                 \* the exception each future holds
    main_pc,                   \* where the calling thread is
    collected,                 \* futures as_completed has yielded
    terminated,                \* the break at line 190 was taken
    in_flight,                 \* history: files in processing at that break
    unrunnable,                \* history: files whose test command could not run
    attempts,                  \* history: applications of each optimizer
    rollbackOccurred,          \* history: line 171 ran for the file
    validated_content,         \* history: content at the last validated apply
    dispatches,                \* history: times a worker took the file
    run,                       \* which invocation of optimize_python_files
    baseline,                  \* the results of the first invocation
    formatters,                \* the optimizers whose tool rewrites the file
    failing_contents           \* <<file, content>> that make the tests fail

vars == <<ignore_failure, max_iterations, pool_size, num_optimizers,
          files_to_optimize, disk, work_queue, holding, pc, original_content,
          optimizer, iteration, validation_successful,
          successful_optimizations, exception, main_pc, collected, terminated,
          in_flight, unrunnable, attempts, rollbackOccurred, validated_content, dispatches, run,
          baseline, formatters, failing_contents>>

config_vars == <<ignore_failure, max_iterations, pool_size, num_optimizers,
                 files_to_optimize>>

main_vars == <<main_pc, collected, terminated, in_flight>>

run_vars == <<run, baseline, formatters, failing_contents, unrunnable>>

(* ------------------------------ content ------------------------------- *)

(* The content a file has before the run. *)
OriginalText == [text |-> "original", applied |-> {}]

(* What a tool that rewrites the file leaves: the optimizer's change is   *)
(* in the content; a formatter run twice changes nothing more.            *)
Rewritten(content, p) == [content EXCEPT !.applied = @ \cup {p}]

(* What open(path, 'w') leaves when the write after it fails. *)
Truncated == [text |-> "truncated", applied |-> {}]

(* ------------------------- the executor's state ----------------------- *)

RECURSIVE SeqOf(_, _)
SeqOf(lo, hi) == IF lo > hi THEN << >> ELSE <<lo>> \o SeqOf(lo + 1, hi)

(* a worker thread that takes a task while it runs another *)
IdleAlways(w) == TRUE

Idle(w) == holding[w] = NoFile

(* a worker thread that does not come back from its task *)
ReleaseNothing(f) == holding

Release(f) == [w \in Workers |-> IF holding[w] = f THEN NoFile ELSE holding[w]]

Ended(f) == pc[f] \in {"done", "raised"}

(* The state optimize_python_files starts a run in: every file submitted, *)
(* in order, no task started.                                             *)
StartOfRun(files) ==
    /\ work_queue = SeqOf(1, files)
    /\ holding = [w \in Workers |-> NoFile]
    /\ pc = [f \in AllFiles |-> "pending"]
    /\ original_content = [f \in AllFiles |-> OriginalText]
    /\ optimizer = [f \in AllFiles |-> 1]
    /\ iteration = [f \in AllFiles |-> 0]
    /\ validation_successful = [f \in AllFiles |-> FALSE]
    /\ successful_optimizations = [f \in AllFiles |-> 0]
    /\ exception = [f \in AllFiles |-> "none"]
    /\ main_pc = "as_completed"
    /\ collected = {}
    /\ terminated = FALSE
    /\ in_flight = {}
    /\ unrunnable = {}
    /\ attempts = [f \in AllFiles |-> [p \in 1..NumPasses |-> 0]]
    /\ rollbackOccurred = [f \in AllFiles |-> FALSE]
    /\ validated_content = [f \in AllFiles |-> OriginalText]
    /\ dispatches = [f \in AllFiles |-> 0]

(* Before any invocation has returned there is nothing to compare with. *)
NoBaseline ==
    [finalState |-> [f \in AllFiles |-> "Pending"],
     rollbackOccurred |-> [f \in AllFiles |-> FALSE],
     disk |-> [f \in AllFiles |-> OriginalText],
     all_validated |-> FALSE]

Init ==
    /\ ignore_failure \in BOOLEAN
    /\ max_iterations \in 1..MaxIter
    /\ pool_size = max_workers
    /\ num_optimizers = NumPasses
    /\ files_to_optimize = 1..NumFiles
    /\ disk = [f \in AllFiles |-> OriginalText]
    /\ run = 1
    /\ baseline = NoBaseline
    /\ formatters = {}
    /\ failing_contents = {}
    /\ StartOfRun(NumFiles)

(* --------------------------- worker threads --------------------------- *)

(* A get() that leaves the task in the queue. *)
DequeuedNothing == work_queue

(* The queue after a worker's work_queue.get(). *)
Dequeued == Tail(work_queue)

(* A worker thread takes the next submitted task and starts                *)
(* optimize_and_validate: original_content is read once (line 147).       *)
(* Worker threads are interchangeable: the idle one of lowest number      *)
(* takes the task.                                                        *)
Take(w) ==
    /\ w \in 1..pool_size
    /\ Idle(w)
    /\ \A v \in 1..(w - 1) : ~Idle(v)
    /\ work_queue # << >>
    /\ LET f == Head(work_queue) IN
        /\ work_queue' = Dequeued
        /\ holding' = [holding EXCEPT ![w] = f]
        /\ pc' = [pc EXCEPT ![f] = "apply"]
        /\ original_content' = [original_content EXCEPT ![f] = disk[f]]
        /\ validated_content' = [validated_content EXCEPT ![f] = disk[f]]
        /\ dispatches' = [dispatches EXCEPT ![f] = @ + 1]
        /\ optimizer' = [optimizer EXCEPT ![f] = 1]
        /\ iteration' = [iteration EXCEPT ![f] = 0]
        /\ validation_successful' = [validation_successful EXCEPT ![f] = FALSE]
        /\ successful_optimizations' = [successful_optimizations EXCEPT ![f] = 0]
    /\ UNCHANGED <<config_vars, main_vars, run_vars, disk, exception, attempts,
                   rollbackOccurred>>

(* range(max_iterations + 1) *)
HasNextIterationOffByOne(f) == iteration[f] + 1 <= max_iterations

(* range(1) *)
HasNextIterationNever(f) == FALSE

(* The inner loop, for iteration in range(max_iterations), has a next     *)
(* iteration.                                                             *)
HasNextIteration(f) == iteration[f] + 1 < max_iterations

(* The inner loop of the current optimizer is over (break, or range       *)
(* exhausted): the outer loop takes the next optimizer (line 151 resets   *)
(* validation_successful), or the function returns (line 176).            *)
AdvanceOptimizer(f, succeeded) ==
    IF optimizer[f] < num_optimizers
    THEN /\ optimizer' = [optimizer EXCEPT ![f] = @ + 1]
         /\ iteration' = [iteration EXCEPT ![f] = 0]
         /\ validation_successful' = [validation_successful EXCEPT ![f] = FALSE]
         /\ pc' = [pc EXCEPT ![f] = "apply"]
         /\ holding' = holding
    ELSE /\ UNCHANGED <<optimizer, iteration>>
         /\ validation_successful' = [validation_successful EXCEPT ![f] = succeeded]
         /\ pc' = [pc EXCEPT ![f] = "done"]
         /\ holding' = Release(f)

(* optimizer(file_path), line 156.  result: "ok" (exit status 0),         *)
(* "failed" (CalledProcessError), "noexec" (the command cannot be run:    *)
(* FileNotFoundError, which the except clause does not catch).  rewrites: *)
(* whether the tool changed the file before it exited.                    *)
Apply(f, result, rewrites) ==
    /\ pc[f] = "apply"
    /\ attempts' = [attempts EXCEPT ![f][optimizer[f]] = @ + 1]
    /\ disk' = IF rewrites /\ result # "noexec"
               THEN [disk EXCEPT ![f] = Rewritten(@, optimizer[f])]
               ELSE disk
    /\ pc' = [pc EXCEPT ![f] = CASE result = "ok" -> "validate"
                                 [] result = "failed" -> "except"
                                 [] OTHER -> "raised"]
    /\ exception' = [exception EXCEPT ![f] = IF result = "noexec"
                                             THEN "FileNotFoundError" ELSE @]
    /\ holding' = IF result = "noexec" THEN Release(f) ELSE holding
    /\ UNCHANGED <<config_vars, main_vars, run_vars, work_queue,
                   original_content, optimizer, iteration,
                   validation_successful, successful_optimizations,
                   rollbackOccurred, validated_content, dispatches>>

(* A success that does not leave the inner loop (no break). *)
ValidateWithoutBreak(f, passed) ==
    /\ pc[f] = "validate"
    /\ IF passed
       THEN /\ successful_optimizations' =
                   [successful_optimizations EXCEPT ![f] = @ + 1]
            /\ validated_content' = [validated_content EXCEPT ![f] = disk[f]]
            /\ IF HasNextIteration(f)
               THEN /\ iteration' = [iteration EXCEPT ![f] = @ + 1]
                    /\ pc' = [pc EXCEPT ![f] = "apply"]
                    /\ UNCHANGED <<optimizer, validation_successful, holding>>
               ELSE AdvanceOptimizer(f, TRUE)
       ELSE /\ pc' = [pc EXCEPT ![f] = "except"]
            /\ UNCHANGED <<successful_optimizations, validated_content,
                           optimizer, iteration, validation_successful, holding>>
    /\ UNCHANGED <<config_vars, main_vars, run_vars, disk, work_queue,
                   original_content, exception, attempts, rollbackOccurred,
                   dispatches>>

(* run_tests(target_dir, ...), lines 160-165.  passed: the test command   *)
(* exited with status 0.                                                  *)
Validate(f, passed) ==
    /\ pc[f] = "validate"
    /\ IF passed
       THEN /\ successful_optimizations' =
                   [successful_optimizations EXCEPT ![f] = @ + 1]
            /\ validated_content' = [validated_content EXCEPT ![f] = disk[f]]
            /\ AdvanceOptimizer(f, TRUE)
       ELSE /\ pc' = [pc EXCEPT ![f] = "except"]
            /\ UNCHANGED <<successful_optimizations, validated_content,
                           optimizer, iteration, validation_successful, holding>>
    /\ UNCHANGED <<config_vars, main_vars, run_vars, disk, work_queue,
                   original_content, exception, attempts, rollbackOccurred,
                   dispatches>>

(* iteration == max_iterations: never true inside the loop *)
ShouldRollbackOffByOne(f) ==
    iteration[f] = max_iterations /\ ~validation_successful[f]

(* a handler that restores the file after every failure *)
ShouldRollbackEveryFailure(f) == ~validation_successful[f]

(* Line 169: the handler restores the file. *)
ShouldRollback(f) ==
    iteration[f] = max_iterations - 1 /\ ~validation_successful[f]

(* a handler that swallows every failure *)
ShouldRaiseNever == FALSE

(* a handler that re-raises whatever ignore_failure says *)
ShouldRaiseAlways == TRUE

(* Line 172: the handler re-raises. *)
ShouldRaise == ~ignore_failure

(* write_text(validated content): a rollback to the last validated apply *)
RollbackTargetLastValidated(f) == validated_content[f]

(* Line 171: what the handler writes back, the content read at line 147. *)
RollbackTarget(f) == original_content[f]

(* The except clause, lines 167-174, and what follows it: the next        *)
(* iteration, the next optimizer, or the end of the function.  written:   *)
(* "ok", or how write_text failed: "unopened" (the file is as it was) or  *)
(* "truncated" (opened for writing, not written); a failed write raises   *)
(* OSError out of the handler.                                           *)
Except(f, written) ==
    /\ pc[f] = "except"
    /\ written # "ok" => ShouldRollback(f)
    /\ disk' = CASE ShouldRollback(f) /\ written = "ok" ->
                        [disk EXCEPT ![f] = RollbackTarget(f)]
                 [] ShouldRollback(f) /\ written = "truncated" ->
                        [disk EXCEPT ![f] = Truncated]
                 [] OTHER -> disk
    /\ rollbackOccurred' = IF ShouldRollback(f) /\ written = "ok"
                           THEN [rollbackOccurred EXCEPT ![f] = TRUE]
                           ELSE rollbackOccurred
    /\ IF written # "ok" \/ ShouldRaise
       THEN /\ pc' = [pc EXCEPT ![f] = "raised"]
            /\ exception' = [exception EXCEPT ![f] =
                               IF written # "ok" THEN "OSError"
                               ELSE "CalledProcessError"]
            /\ holding' = Release(f)
            /\ UNCHANGED <<optimizer, iteration, validation_successful>>
       ELSE /\ exception' = exception
            /\ IF HasNextIteration(f)
               THEN /\ iteration' = [iteration EXCEPT ![f] = @ + 1]
                    /\ pc' = [pc EXCEPT ![f] = "apply"]
                    /\ UNCHANGED <<optimizer, validation_successful, holding>>
               ELSE AdvanceOptimizer(f, FALSE)
    /\ UNCHANGED <<config_vars, main_vars, run_vars, work_queue,
                   original_content, successful_optimizations, attempts,
                   validated_content, dispatches>>

(* --------------------------- calling thread --------------------------- *)

(* One turn of the as_completed loop, lines 182-190: a finished future is *)
(* yielded, its exception logged, and the loop left on a failure when     *)
(* ignore_failure is false, or when no future is left.                    *)
Collect(f) ==
    /\ main_pc = "as_completed"
    /\ f \in files_to_optimize \ collected
    /\ Ended(f)
    /\ collected' = collected \cup {f}
    /\ terminated' = (exception[f] # "none" /\ ~ignore_failure)
    /\ in_flight' = IF terminated'
                    THEN {g \in AllFiles : pc[g] \in {"apply", "validate", "except"}}
                    ELSE in_flight
    /\ main_pc' = IF terminated' \/ collected' = files_to_optimize
                  THEN "shutdown" ELSE "as_completed"
    /\ UNCHANGED <<config_vars, run_vars, disk, work_queue, holding, pc,
                   original_content, optimizer, iteration,
                   validation_successful, successful_optimizations, exception,
                   attempts, rollbackOccurred, validated_content, dispatches>>

(* shutdown(wait=False): line 192 is reached with workers still running. *)
ShutdownWithoutWait ==
    /\ main_pc = "shutdown"
    /\ main_pc' = "returned"
    /\ UNCHANGED <<config_vars, run_vars, disk, work_queue, holding, pc,
                   original_content, optimizer, iteration,
                   validation_successful, successful_optimizations, exception,
                   collected, terminated, in_flight, attempts,
                   rollbackOccurred, validated_content, dispatches>>

(* Leaving the with block, line 179: shutdown(wait=True) joins the worker *)
(* threads, which first run every task still queued; then line 192.       *)
Shutdown ==
    /\ main_pc = "shutdown"
    /\ work_queue = << >>
    /\ \A w \in Workers : Idle(w)
    /\ main_pc' = "returned"
    /\ UNCHANGED <<config_vars, run_vars, disk, work_queue, holding, pc,
                   original_content, optimizer, iteration,
                   validation_successful, successful_optimizations, exception,
                   collected, terminated, in_flight, attempts,
                   rollbackOccurred, validated_content, dispatches>>

(* ---------------------------- specification --------------------------- *)

(* ---------------------- the run's summary ------------------------------ *)

(* How the file's task ended: every optimizer done and the last one       *)
(* validated; the last optimizer worked on used all its iterations and    *)
(* the handler restored the file; or an exception ended the task.         *)
FinalState(f) ==
    CASE pc[f] = "done" ->
            IF validation_successful[f] THEN "Optimized" ELSE "RolledBack"
      [] pc[f] = "raised" ->
            IF exception[f] = "CalledProcessError"
               /\ iteration[f] = max_iterations - 1
            THEN "RolledBack" ELSE "Failed"
      [] OTHER -> "Pending"

(* Whether the calling thread left the result loop at line 190. *)
OverallStatus == IF terminated THEN "AbortedOnFailure" ELSE "Completed"

RECURSIVE SumAttempts(_, _)
SumAttempts(f, p) == IF p = 0 THEN 0 ELSE attempts[f][p] + SumAttempts(f, p - 1)

(* Some application of an optimizer to the file has failed (in the tool   *)
(* or in the tests after it).                                             *)
HasFailed(f) ==
    SumAttempts(f, NumPasses) >
        successful_optimizations[f] + (IF pc[f] = "validate" THEN 1 ELSE 0)

(* ---------------------------- specification --------------------------- *)

ApplyResults == {"ok", "failed", "noexec"}

WriteResults == {"ok", "unopened", "truncated"}

Next ==
    \/ \E w \in Workers : Take(w)
    \/ \E f \in AllFiles : \E r \in ApplyResults : \E m \in BOOLEAN : Apply(f, r, m)
    \/ \E f \in AllFiles : \E ok \in BOOLEAN : Validate(f, ok)
    \/ \E f \in AllFiles : \E wr \in WriteResults : Except(f, wr)
    \/ \E f \in AllFiles : Collect(f)
    \/ Shutdown

Spec == Init /\ [][Next]_vars

(* Every tool and test command returns and the threads are scheduled:     *)
(* while some step can be taken, a step is taken.                         *)
SpecFair == Spec /\ WF_vars(Next)

(* ------------------- a test command that cannot run ------------------- *)

(* run_tests when the test command is missing: subprocess.run is given    *)
(* shell=True, so the shell runs, exits 127, and check=True raises        *)
(* CalledProcessError (lines 78-81), which line 167 catches like a        *)
(* failing test.                                                          *)
ValidateUnrunnable(f) ==
    /\ pc[f] = "validate"
    /\ pc' = [pc EXCEPT ![f] = "except"]
    /\ unrunnable' = unrunnable \cup {f}
    /\ UNCHANGED <<config_vars, main_vars, run, baseline, formatters,
                   failing_contents, disk, work_queue, holding,
                   original_content, optimizer, iteration,
                   validation_successful, successful_optimizations, exception,
                   attempts, rollbackOccurred, validated_content, dispatches>>

NextFaults ==
    \/ Next
    \/ \E f \in AllFiles : ValidateUnrunnable(f)

SpecFaults == Init /\ [][NextFaults]_vars

(* ------------------- a second invocation (main) ----------------------- *)

(* What an invocation that has returned leaves to compare with. *)
Summary ==
    [finalState |-> [f \in AllFiles |-> FinalState(f)],
     rollbackOccurred |-> rollbackOccurred,
     disk |-> disk,
     all_validated |->
        \A f \in files_to_optimize :
            successful_optimizations[f] = num_optimizers]

(* optimize_python_files is called again (main, lines 263-264, calls it   *)
(* once per path, and paths may overlap) on the workspace as new_disk,    *)
(* with an executor of workers threads.                                   *)
Invoke(new_disk, workers) ==
    /\ main_pc = "returned"
    /\ run = 1
    /\ run' = 2
    /\ baseline' = Summary
    /\ disk' = new_disk
    /\ pool_size' = workers
    /\ work_queue' = SeqOf(1, Cardinality(files_to_optimize))
    /\ holding' = [w \in Workers |-> NoFile]
    /\ pc' = [f \in AllFiles |-> "pending"]
    /\ original_content' = [f \in AllFiles |-> OriginalText]
    /\ optimizer' = [f \in AllFiles |-> 1]
    /\ iteration' = [f \in AllFiles |-> 0]
    /\ validation_successful' = [f \in AllFiles |-> FALSE]
    /\ successful_optimizations' = [f \in AllFiles |-> 0]
    /\ exception' = [f \in AllFiles |-> "none"]
    /\ main_pc' = "as_completed"
    /\ collected' = {}
    /\ terminated' = FALSE
    /\ in_flight' = {}
    /\ unrunnable' = {}
    /\ attempts' = [f \in AllFiles |-> [p \in 1..NumPasses |-> 0]]
    /\ rollbackOccurred' = [f \in AllFiles |-> FALSE]
    /\ validated_content' = [f \in AllFiles |-> OriginalText]
    /\ dispatches' = [f \in AllFiles |-> 0]
    /\ UNCHANGED <<ignore_failure, max_iterations, num_optimizers,
                   files_to_optimize, formatters, failing_contents>>

(* The second invocation runs over what the first one left. *)
RunAgain == Invoke(disk, pool_size)

(* The same workspace as the first invocation had, optimized again by an  *)
(* executor of max_workers threads.                                       *)
RunAfresh == Invoke([f \in AllFiles |-> OriginalText], max_workers)

(* ------------------------ deterministic tools ------------------------- *)

(* The contents a file can have. *)
Contents == [text : {"original"}, applied : SUBSET (1..NumPasses)]

(* run_tests runs one command in target_dir: its exit status is decided   *)
(* by the content of every file of the workspace at that moment.          *)
TestsPass(d) == \A f \in AllFiles : <<f, d[f]>> \notin failing_contents

(* Tools that always exit 0, the formatters rewriting the file, and a    *)
(* test command whose result is a function of the workspace.             *)
InitDet(workers) ==
    /\ ignore_failure \in BOOLEAN
    /\ max_iterations \in 1..MaxIter
    /\ pool_size = workers
    /\ num_optimizers = NumPasses
    /\ files_to_optimize = 1..NumFiles
    /\ disk = [f \in AllFiles |-> OriginalText]
    /\ run = 1
    /\ baseline = NoBaseline
    /\ formatters \in SUBSET (1..NumPasses)
    /\ failing_contents \in SUBSET ((1..NumFiles) \X Contents)
    /\ StartOfRun(NumFiles)

NextDet ==
    \/ \E w \in Workers : Take(w)
    \/ \E f \in AllFiles : Apply(f, "ok", optimizer[f] \in formatters)
    \/ \E f \in AllFiles : Validate(f, TestsPass(disk))
    \/ \E f \in AllFiles : Except(f, "ok")
    \/ \E f \in AllFiles : Collect(f)
    \/ Shutdown

InitRerun == InitDet(max_workers)

SpecRerun == InitRerun /\ [][NextDet \/ RunAgain]_vars

InitCompare == InitDet(1)

SpecCompare == InitCompare /\ [][NextDet \/ RunAfresh]_vars

(* ------------------------- the spec's scenario ------------------------ *)

(* Section 8: file A (1): pass 1 succeeds, pass 2 fails both iterations;  *)
(* file B (2): both passes succeed; file C (3): pass 1 fails iteration 1  *)
(* and succeeds iteration 2, pass 2 succeeds.  (iteration counts from 0.) *)
ScenarioOutcome(f, p, i) ==
    CASE f = 1 /\ p = 2 -> "fail"
      [] f = 3 /\ p = 1 /\ i = 0 -> "fail"
      [] OTHER -> "ok"

Scripted(f) == ScenarioOutcome(f, optimizer[f], iteration[f])

InitScenario ==
    /\ ignore_failure = TRUE
    /\ max_iterations = 2
    /\ pool_size = max_workers
    /\ num_optimizers = 2
    /\ files_to_optimize = 1..3
    /\ disk = [f \in AllFiles |-> OriginalText]
    /\ run = 1
    /\ baseline = NoBaseline
    /\ formatters = {}
    /\ failing_contents = {}
    /\ StartOfRun(3)

(* A scripted failure is the tool's or the tests'; the file may have been *)
(* rewritten either way.                                                  *)
NextScenario ==
    \/ \E w \in Workers : Take(w)
    \/ \E f \in AllFiles : \E r \in {"ok", "failed"} : \E m \in BOOLEAN :
          /\ r = "failed" => Scripted(f) = "fail"
          /\ Apply(f, r, m)
    \/ \E f \in AllFiles : Validate(f, Scripted(f) = "ok")
    \/ \E f \in AllFiles : Except(f, "ok")
    \/ \E f \in AllFiles : Collect(f)
    \/ Shutdown

SpecScenario == InitScenario /\ [][NextScenario]_vars

(* ---------------------- more files than threads ----------------------- *)

(* Every file of the workspace is submitted, more than the executor has   *)
(* threads; one optimizer, one iteration.                                 *)
InitPool ==
    /\ ignore_failure \in BOOLEAN
    /\ max_iterations = 1
    /\ pool_size = max_workers
    /\ num_optimizers = 1
    /\ files_to_optimize = AllFiles
    /\ disk = [f \in AllFiles |-> OriginalText]
    /\ run = 1
    /\ baseline = NoBaseline
    /\ formatters = {}
    /\ failing_contents = {}
    /\ StartOfRun(MaxFiles)

NextPool ==
    \/ \E w \in Workers : Take(w)
    \/ \E f \in AllFiles : \E r \in {"ok", "failed"} : Apply(f, r, TRUE)
    \/ \E f \in AllFiles : \E ok \in BOOLEAN : Validate(f, ok)
    \/ \E f \in AllFiles : Except(f, "ok")
    \/ \E f \in AllFiles : Collect(f)
    \/ Shutdown

SpecPool == InitPool /\ [][NextPool]_vars

(* The files a worker thread is running optimize_and_validate on. *)
Processing == {f \in AllFiles : pc[f] \in {"apply", "validate", "except"}}

(* ------------------------------- claims ------------------------------- *)

(* C1: once a file's processing has ended (every tool and test command   *)
(* having run and exited with some status), its content on disk is its    *)
(* original content or the content left by an apply whose validation      *)
(* succeeded.  (Fails: with ignore_failure false and an iteration other   *)
(* than the last, the handler re-raises without restoring the file.)      *)
C1_ContentOriginalOrValidated ==
    \A f \in AllFiles :
        (Ended(f) /\ exception[f] \in {"none", "CalledProcessError"}) =>
            \/ disk[f] = original_content[f]
            \/ disk[f] = validated_content[f]

(* C2: a file whose final state is RolledBack holds exactly the content   *)
(* captured before its first pass, also when ignore_failure is true and   *)
(* further passes ran after a rollback.                                   *)
C2_RolledBackIsOriginal ==
    \A f \in AllFiles :
        (Ended(f) /\ FinalState(f) = "RolledBack") =>
            disk[f] = original_content[f]

(* a file that rolled back in its first pass, went on (ignore_failure)    *)
(* and ended RolledBack in its last pass                                  *)
C2_Witness ==
    \E f \in AllFiles :
        /\ ignore_failure
        /\ pc[f] = "done"
        /\ FinalState(f) = "RolledBack"
        /\ num_optimizers >= 2
        /\ attempts[f][1] = max_iterations
        /\ successful_optimizations[f] = 0
        /\ rollbackOccurred[f]

(* C3: no optimizer is applied to a file more than max_iterations times. *)
C3_AttemptsBounded ==
    \A f \in AllFiles : \A p \in 1..NumPasses :
        attempts[f][p] <= max_iterations

(* an optimizer that used every iteration, with more than one allowed *)
C3_Witness ==
    \E f \in AllFiles : \E p \in 1..NumPasses :
        /\ max_iterations >= 2
        /\ attempts[f][p] = max_iterations
        /\ Ended(f)

(* C4: with ignore_failure false, once an application has failed on a     *)
(* file, no optimizer is applied to that file again.                      *)
C4_NoApplyAfterFailure ==
    [][\A f \in AllFiles :
          (~ignore_failure /\ HasFailed(f)) => attempts'[f] = attempts[f]]_vars

(* a file stopped by a failure with optimizers and iterations left *)
C4_Witness ==
    \E f \in AllFiles :
        /\ ~ignore_failure
        /\ HasFailed(f)
        /\ pc[f] = "raised"
        /\ exception[f] = "CalledProcessError"
        /\ optimizer[f] < num_optimizers
        /\ iteration[f] + 1 < max_iterations

(* C5: with ignore_failure false, once the calling thread has seen a      *)
(* failure and left the result loop, no file that has not begun           *)
(* processing begins.  (Fails: the tasks were all submitted, and leaving  *)
(* the with block waits for the queued ones to run.)                      *)
C5_NoStartAfterSoftStop ==
    [][\A f \in AllFiles :
          (terminated /\ pc[f] = "pending") => pc'[f] = "pending"]_vars

(* C6: with ignore_failure true, a file whose tools and tests only fail   *)
(* (CalledProcessError) has every optimizer applied at least once by the  *)
(* time its processing ends.                                              *)
C6_EveryPassAttempted ==
    \A f \in AllFiles :
        (ignore_failure /\ Ended(f)
            /\ exception[f] \notin {"FileNotFoundError", "OSError"}) =>
            \A p \in 1..num_optimizers : attempts[f][p] >= 1

(* a file whose first optimizer used all its iterations and was rolled    *)
(* back, and whose later optimizers were applied all the same             *)
C6_Witness ==
    \E f \in AllFiles :
        /\ ignore_failure
        /\ pc[f] = "done"
        /\ max_iterations >= 2
        /\ num_optimizers >= 2
        /\ attempts[f][1] = max_iterations
        /\ rollbackOccurred[f]
        /\ successful_optimizations[f] = num_optimizers - 1

(* C10: no two worker threads hold the same file, a file being processed  *)
(* is held by a worker, and no file is handed to a worker twice.          *)
C10_OneWorkerPerFile ==
    /\ \A v, w \in Workers :
          (v # w /\ holding[v] # NoFile) => holding[v] # holding[w]
    /\ \A f \in AllFiles :
          /\ dispatches[f] <= 1
          /\ pc[f] \in {"apply", "validate", "except"} =>
                \E w \in Workers : holding[w] = f
          /\ pc[f] \in {"pending", "done", "raised"} =>
                \A w \in Workers : holding[w] # f

(* two worker threads at work on two files at once *)
C10_Witness ==
    \E v, w \in Workers :
        /\ v # w
        /\ holding[v] # NoFile
        /\ holding[w] # NoFile
        /\ pc[holding[v]] = "validate"
        /\ pc[holding[w]] = "except"


(* C7: with the same files, optimizers, max_iterations and               *)
(* ignore_failure, the run with max_workers threads gives every file the  *)
(* final state and the rollbackOccurred value the run with one thread     *)
(* gave it.  (Fails: the test command reads every file of the workspace,  *)
(* also those another thread has rewritten and not yet validated.)        *)
C7_SameAsOneWorker ==
    (run = 2 /\ main_pc = "returned") =>
        \A f \in files_to_optimize :
            /\ FinalState(f) = baseline.finalState[f]
            /\ rollbackOccurred[f] = baseline.rollbackOccurred[f]

(* C8: the scenario of section 8 ends with A RolledBack and holding its   *)
(* original content, B Optimized with no rollback, C Optimized, and the   *)
(* run Completed, whatever the interleaving.                              *)
C8_Scenario ==
    main_pc = "returned" =>
        /\ FinalState(1) = "RolledBack"
        /\ disk[1] = original_content[1]
        /\ disk[1] = OriginalText
        /\ FinalState(2) = "Optimized"
        /\ ~rollbackOccurred[2]
        /\ FinalState(3) = "Optimized"
        /\ OverallStatus = "Completed"

(* the scenario has run to its end: A's pass 2 twice, C's pass 1 twice *)
C8_Witness ==
    /\ main_pc = "returned"
    /\ attempts[1] = <<1, 2>>
    /\ rollbackOccurred[1]
    /\ attempts[2] = <<1, 1>>
    /\ attempts[3] = <<2, 1>>

(* C9: a second run over files every optimizer of which was validated in  *)
(* the first run applies each optimizer once, at iteration 0, never       *)
(* fails, rolls nothing back, leaves every file's content as the first    *)
(* run left it, and ends with every file Optimized.                       *)
C9_SecondRunIsNoOp ==
    (run = 2 /\ baseline.all_validated) =>
        \A f \in files_to_optimize :
            /\ \A p \in 1..NumPasses : attempts[f][p] <= 1
            /\ iteration[f] = 0
            /\ pc[f] \notin {"except", "raised"}
            /\ ~rollbackOccurred[f]
            /\ disk[f] = baseline.disk[f]
            /\ Ended(f) =>
                  /\ FinalState(f) = "Optimized"
                  /\ \A p \in 1..num_optimizers : attempts[f][p] = 1

(* a second run that has returned, over files that formatters rewrote in  *)
(* a first run in which an optimizer had to be retried                    *)
C9_Witness ==
    /\ run = 2
    /\ baseline.all_validated
    /\ main_pc = "returned"
    /\ formatters = 1..NumPasses
    /\ failing_contents # {}
    /\ \A f \in files_to_optimize : disk[f].applied = 1..NumPasses


(* C11: a file in processing when the calling thread sees a failure and   *)
(* leaves the result loop (ignore_failure false) is not cut short: its    *)
(* task goes on by its own steps only, and by the time the run has        *)
(* returned it has ended, by its own completion or its own exception.     *)
C11_InFlightRunsToItsEnd ==
    [][/\ main_pc' = "returned" => \A f \in in_flight' : Ended(f)'
       /\ \A f \in in_flight :
            \/ pc'[f] = pc[f]
            \/ pc[f] = "apply" /\ pc'[f] \in {"validate", "except", "raised"}
            \/ pc[f] = "validate" /\ pc'[f] \in {"apply", "except", "done"}
            \/ pc[f] = "except" /\ pc'[f] \in {"apply", "raised", "done"}]_vars

(* a run that has returned after leaving the result loop early, and a     *)
(* file that was in processing then and went on to complete               *)
C11_Witness ==
    /\ main_pc = "returned"
    /\ terminated
    /\ \E f \in in_flight :
          /\ pc[f] = "done"
          /\ f \notin collected
          /\ successful_optimizations[f] = num_optimizers


(* C12: once a tool could not be executed at all, or the test command     *)
(* could not be run, on a file, no optimizer is applied to that file      *)
(* again, whatever ignore_failure is.  (Fails for the test command: its   *)
(* failure to run is caught and retried like a failing test.)             *)
C12_UnrunnableCommandEndsFile ==
    [][\A f \in AllFiles :
          (exception[f] = "FileNotFoundError" \/ f \in unrunnable) =>
              attempts'[f] = attempts[f]]_vars


(* C13: when the call has returned, the calling thread has read the       *)
(* result of every file that a worker thread took up.  (Fails: after the  *)
(* break at line 190 the remaining futures are never read.)               *)
C13_EveryOutcomeCollected ==
    main_pc = "returned" =>
        \A f \in AllFiles : dispatches[f] >= 1 => f \in collected


(* C14: when the handler has run for an optimizer's max_iterations-th     *)
(* failed application and its write succeeded, the file holds the content *)
(* read at line 147 as the handler is left (for the next optimizer, the   *)
(* end of the task, or the re-raise), whatever earlier optimizers had     *)
(* validated; and original_content is not assigned after line 147.        *)
C14_ExhaustedPassRestoresOriginal ==
    [][\A f \in AllFiles :
          /\ (/\ pc[f] = "except"
              /\ pc'[f] # "except"
              /\ attempts[f][optimizer[f]] = max_iterations
              /\ exception'[f] # "OSError") =>
                 /\ disk'[f] = original_content[f]
                 /\ rollbackOccurred'[f]
          /\ pc[f] # "pending" => original_content'[f] = original_content[f]]_vars

(* the first optimizer's change was validated, the second optimizer used  *)
(* every iteration, and the file is back at its original content, which   *)
(* is not the validated one                                               *)
C14_Witness ==
    \E f \in AllFiles :
        /\ pc[f] = "done"
        /\ max_iterations >= 2
        /\ successful_optimizations[f] = 1
        /\ attempts[f][2] = max_iterations
        /\ rollbackOccurred[f]
        /\ validated_content[f] # original_content[f]
        /\ disk[f] = original_content[f]


(* C15: a task ended by a failing tool or failing tests only after the    *)
(* optimizer at work was applied max_iterations times.  (Fails: with      *)
(* ignore_failure false line 174 re-raises on the first failure, so the   *)
(* optimizer is not applied again.)                                       *)
C15_RaisedOnlyAfterAllIterations ==
    \A f \in AllFiles :
        (pc[f] = "raised" /\ exception[f] = "CalledProcessError") =>
            attempts[f][optimizer[f]] = max_iterations

(* C16: the optimizers are applied to a file in list order, one at a      *)
(* time: the outer loop moves to the next optimizer, by one, only on a    *)
(* validated application or when the current one was applied              *)
(* max_iterations times; only the current optimizer is applied, and no    *)
(* later one has been applied before.                                     *)
C16_PassesInOrder ==
    [][\A f \in AllFiles :
          /\ (pc[f] # "pending" /\ optimizer'[f] # optimizer[f]) =>
                /\ optimizer'[f] = optimizer[f] + 1
                /\ \/ successful_optimizations'[f] = successful_optimizations[f] + 1
                   \/ attempts[f][optimizer[f]] = max_iterations
                /\ attempts'[f][optimizer'[f]] = 0
          /\ \A p \in 1..NumPasses :
                attempts'[f][p] # attempts[f][p] =>
                    /\ p = optimizer[f]
                    /\ attempts'[f][p] = attempts[f][p] + 1
                    /\ \A q \in (p + 1)..NumPasses : attempts[f][q] = 0
                    /\ \A q \in 1..(p - 1) : attempts[f][q] >= 1]_vars

(* the second optimizer is at work after the first used every iteration,  *)
(* and another file's second optimizer after its first one validated      *)
C16_Witness ==
    \E f, g \in AllFiles :
        /\ max_iterations >= 2
        /\ optimizer[f] = 2 /\ attempts[f][2] >= 1
        /\ attempts[f][1] = max_iterations /\ successful_optimizations[f] = 0
        /\ optimizer[g] = 2 /\ attempts[g][2] >= 1
        /\ attempts[g][1] = 1 /\ successful_optimizations[g] >= 1

(* C17: when the calling thread reads the result of a task that the       *)
(* failed write at line 171 ended, it leaves the result loop.  (Fails:    *)
(* with ignore_failure true the error is logged and the loop goes on.)    *)
C17_FailedRestoreStopsTheRun ==
    [][\A f \in AllFiles :
          (f \in collected' /\ f \notin collected /\ exception[f] = "OSError") =>
              terminated']_vars


(* C18: at most max_workers files are in processing at once, and a        *)
(* submitted file starts only while fewer than max_workers are in         *)
(* processing: with every thread busy it stays in the queue.              *)
C18_AtMostPoolSizeAtOnce ==
    [][/\ Cardinality(Processing') <= max_workers
       /\ \A f \in AllFiles :
             (pc[f] = "pending" /\ pc'[f] # "pending") =>
                 Cardinality(Processing) < max_workers]_vars

(* every thread was busy with a file in the queue, and that file has      *)
(* been run since                                                         *)
C18_Witness ==
    /\ Cardinality(files_to_optimize) > max_workers
    /\ Cardinality(Processing) = max_workers
    /\ work_queue = << >>
    /\ \E f \in Processing : \E g \in AllFiles : f > max_workers /\ Ended(g)


(* C19: every run reaches line 192, and when it has, every submitted      *)
(* task has ended, no worker thread holds a file and the queue is empty,  *)
(* also after the break at line 190; from then on no file's content       *)
(* changes.                                                               *)
C19_ReturnsWithWorkersAtRest ==
    /\ <>(main_pc = "returned")
    /\ [](main_pc = "returned" =>
            /\ \A f \in files_to_optimize : Ended(f)
            /\ \A w \in Workers : Idle(w)
            /\ work_queue = << >>)
    /\ [][main_pc = "returned" => disk' = disk]_vars

(* the call has returned after the break, with a file that was still in   *)
(* processing at the break and ended, unread, before the return           *)
C19_Witness ==
    /\ main_pc = "returned"
    /\ terminated
    /\ \E f \in in_flight : Ended(f) /\ f \notin collected /\ disk[f] # OriginalText


(* C20: line 171 runs, and a file's content is written by anything but a  *)
(* tool, only in the handler of an optimizer's max_iterations-th          *)
(* application, which failed; so a file none of whose applications failed *)
(* is never restored, and a task that ignore_failure false ends on a      *)
(* failure before the last iteration leaves the file unrestored.          *)
C20_RollbackOnlyOnLastIteration ==
    [][\A f \in AllFiles :
          /\ (\/ rollbackOccurred'[f] # rollbackOccurred[f]
              \/ (disk'[f] # disk[f] /\ pc[f] # "apply")) =>
                 /\ pc[f] = "except"
                 /\ attempts[f][optimizer[f]] = max_iterations
                 /\ iteration[f] = max_iterations - 1
          /\ rollbackOccurred'[f] => HasFailed(f)'
          /\ (/\ ~ignore_failure
              /\ pc[f] = "except"
              /\ attempts[f][optimizer[f]] < max_iterations) =>
                 /\ pc'[f] \in {"except", "raised"}
                 /\ disk'[f] = disk[f]
                 /\ ~rollbackOccurred'[f]]_vars

(* ignore_failure false, two iterations allowed: the task was ended by    *)
(* its first failure and the file keeps the failed tool's change          *)
C20_Witness ==
    \E f \in AllFiles :
        /\ ~ignore_failure
        /\ max_iterations >= 2
        /\ pc[f] = "raised"
        /\ exception[f] = "CalledProcessError"
        /\ attempts[f][optimizer[f]] = 1
        /\ ~rollbackOccurred[f]
        /\ disk[f] # original_content[f]

====
